---- MODULE Spec2Model ----
(***************************************************************************)
(* busqueitor.py: DocumentValidator.  Strings are sequences of one-        *)
(* character strings, so that the regular expressions, str.upper, slicing  *)
(* and int() are computed character by character as Python does.           *)
(***************************************************************************)
EXTENDS Integers, Sequences, FiniteSets, TLC

VARIABLES stats, op, doc, valido, texto, extraccion, resultados, lanzado,
          llamadas, devueltos, csv

vars == <<stats, op, doc, valido, texto, extraccion, resultados, lanzado,
          llamadas, devueltos, csv>>

(***************************************************************************)
(* Characters                                                              *)
(***************************************************************************)
DigitSeq == <<"0", "1", "2", "3", "4", "5", "6", "7", "8", "9">>

UpperSeq == <<"A", "B", "C", "D", "E", "F", "G", "H", "I", "J", "K", "L", "M",
              "N", "O", "P", "Q", "R", "S", "T", "U", "V", "W", "X", "Y", "Z">>

LowerSeq == <<"a", "b", "c", "d", "e", "f", "g", "h", "i", "j", "k", "l", "m",
              "n", "o", "p", "q", "r", "s", "t", "u", "v", "w", "x", "y", "z">>

\* U+0138, LATIN SMALL LETTER KRA: a lowercase letter (category Ll, matched by
\* \w) that has no uppercase form, so that str.upper leaves it as it is.  It
\* stands for the lowercase letters of that kind.
KRA == "U+0138"

\* The characters of the model in code-point order (the code points between
\* them are not in the model): a regex range [a-b] is an interval of this order.
CodePoints == DigitSeq \o UpperSeq \o <<"_">> \o LowerSeq \o <<KRA>>

\* \w : letters, digits and the underscore
ClassWord == {CodePoints[i] : i \in 1..Len(CodePoints)}

Ord == [c \in ClassWord |-> CHOOSE i \in 1..Len(CodePoints) : CodePoints[i] = c]

CharRange(a, b) == {CodePoints[i] : i \in Ord[a]..Ord[b]}

\* \d
ClassDigit == CharRange("0", "9")

\* \s
ClassSpace == {" ", "\t", "\n"}

\* the characters of the model
Chars == ClassWord \cup ClassSpace \cup {".", "-", ","}

\* str.upper, one character
UpperChar ==
    [c \in Chars |->
        IF \E i \in 1..Len(LowerSeq) : LowerSeq[i] = c
        THEN UpperSeq[CHOOSE i \in 1..Len(LowerSeq) : LowerSeq[i] = c]
        ELSE c]

\* str.upper
upper(s) == [i \in 1..Len(s) |-> UpperChar[s[i]]]

\* [\s.-]
ClassSeparator == ClassSpace \cup {".", "-"}

NotSeparator(c) == c \notin ClassSeparator

\* the mutant of clean_document: re.sub(..., count=1), only the first
\* separator is removed
clean_document_once(d) ==
    LET first == IF \E i \in 1..Len(d) : d[i] \in ClassSeparator
                 THEN CHOOSE i \in 1..Len(d) :
                          /\ d[i] \in ClassSeparator
                          /\ \A j \in 1..(i - 1) : d[j] \notin ClassSeparator
                 ELSE 0
    IN  upper(IF first = 0 THEN d
              ELSE SubSeq(d, 1, first - 1) \o SubSeq(d, first + 1, Len(d)))

\* re.sub(r'[\s.-]', '', doc).upper()
clean_document(d) == upper(SelectSeq(d, NotSeparator))

(***************************************************************************)
(* Regular expressions.  Every pattern of the program is a fixed-length    *)
(* sequence of character classes.                                          *)
(***************************************************************************)
Repeat(class, n) == [i \in 1..n |-> class]

\* re.match(r'^...$', s): '$' matches at the end of the string and also just
\* before a newline that ends it.
ReMatchAnchored(classes, s) ==
    /\ \/ Len(s) = Len(classes)
       \/ Len(s) = Len(classes) + 1 /\ s[Len(s)] = "\n"
    /\ \A i \in 1..Len(classes) : s[i] \in classes[i]

\* \b between s[p-1] and s[p] (p = 1 is the start, p = Len(s)+1 the end)
IsWordAt(s, p) == p >= 1 /\ p <= Len(s) /\ s[p] \in ClassWord

WordBoundary(s, p) == IsWordAt(s, p - 1) # IsWordAt(s, p)

\* the pattern \b classes \b matches s at position p
MatchAt(classes, s, p) ==
    /\ p + Len(classes) - 1 <= Len(s)
    /\ WordBoundary(s, p)
    /\ \A i \in 1..Len(classes) : s[p + i - 1] \in classes[i]
    /\ WordBoundary(s, p + Len(classes))

RECURSIVE FindFrom(_, _, _)
FindFrom(classes, s, p) ==
    IF p > Len(s) THEN <<>>
    ELSE IF MatchAt(classes, s, p)
         THEN <<[start |-> p - 1, group |-> SubSeq(s, p, p + Len(classes) - 1)]>>
              \o FindFrom(classes, s, p + Len(classes))
         ELSE FindFrom(classes, s, p + 1)

\* list(re.finditer(patron, texto)): left to right, non-overlapping; start is
\* match.start() (0-based), group is match.group()
finditer(patron, s) == FindFrom(patron, s, 1)

(***************************************************************************)
(* Class constants                                                         *)
(***************************************************************************)
LETRAS_VALIDACION ==
    <<"T", "R", "W", "A", "G", "M", "Y", "F", "P", "D", "X", "B",
      "N", "J", "Z", "S", "Q", "V", "H", "L", "C", "K", "E", "T">>

\* r'\b\d{8}[A-Z]\b'
PATRON_DNI == Repeat(ClassDigit, 8) \o <<CharRange("A", "Z")>>

\* r'\b[XYZ]\d{7}[A-Z]\b'
PATRON_NIE == <<{"X", "Y", "Z"}>> \o Repeat(ClassDigit, 7) \o <<CharRange("A", "Z")>>

\* the mutant of NifLeading: every letter but I, K, L, M, O and T
NifLeadingWithXYZ ==
    CharRange("A", "H") \cup {"J", "N"} \cup CharRange("P", "S") \cup CharRange("U", "Z")

\* [A-HJNP-SUVW]
NifLeading == CharRange("A", "H") \cup {"J", "N"} \cup CharRange("P", "S") \cup {"U", "V", "W"}

\* r'\b[A-HJNP-SUVW]\d{7}[0-9A-Z]\b'
PATRON_NIF ==
    <<NifLeading>> \o Repeat(ClassDigit, 7) \o <<CharRange("0", "9") \cup CharRange("A", "Z")>>

(***************************************************************************)
(* int()                                                                   *)
(***************************************************************************)
DigitValue == [c \in ClassDigit |-> (CHOOSE i \in 1..Len(DigitSeq) : DigitSeq[i] = c) - 1]

\* int(s) raises ValueError
IntValueError(s) == s = <<>> \/ \E i \in 1..Len(s) : s[i] \notin ClassDigit

RECURSIVE IntOf(_)
IntOf(s) ==
    IF s = <<>> THEN 0
    ELSE 10 * IntOf(SubSeq(s, 1, Len(s) - 1)) + DigitValue[s[Len(s)]]

(***************************************************************************)
(* The validators                                                          *)
(***************************************************************************)
\* r'^\d{8}[A-Z]$'
RE_DNI == Repeat(ClassDigit, 8) \o <<CharRange("A", "Z")>>

\* r'^[XYZ]\d{7}[A-Z]$'
RE_NIE == <<{"X", "Y", "Z"}>> \o Repeat(ClassDigit, 7) \o <<CharRange("A", "Z")>>

\* the mutant of RE_NIF: the last character is a letter, [A-Z]
RE_NIF_LETTER == <<NifLeading>> \o Repeat(ClassDigit, 7) \o <<CharRange("A", "Z")>>

\* r'^[A-HJNP-SUVW]\d{7}[0-9A-Z]$'
RE_NIF ==
    <<NifLeading>> \o Repeat(ClassDigit, 7) \o <<CharRange("0", "9") \cup CharRange("A", "Z")>>

\* \d{8} instead of \d{7}
RE_NIF_BODY8 ==
    <<NifLeading>> \o Repeat(ClassDigit, 8) \o <<CharRange("0", "9") \cup CharRange("A", "Z")>>

\* the mutant of validate_dni: the modulus is the length of LETRAS_VALIDACION
validate_dni_mod24(dni) ==
    LET d == clean_document(dni) IN
    IF ~ReMatchAnchored(RE_DNI, d) THEN FALSE
    ELSE LET numbers == SubSeq(d, 1, Len(d) - 1)
             letter == d[Len(d)]
         IN  IF IntValueError(numbers) THEN FALSE
             ELSE letter = LETRAS_VALIDACION[(IntOf(numbers) % 24) + 1]

\* the mutant of validate_dni: the shape is not tested, the slices and int()
\* decide (IndexError on the empty string, ValueError on a non-numeric body)
validate_dni_noshape(dni) ==
    LET d == clean_document(dni) IN
    IF d = <<>> THEN FALSE
    ELSE LET numbers == SubSeq(d, 1, Len(d) - 1)
             letter == d[Len(d)]
         IN  IF IntValueError(numbers) THEN FALSE
             ELSE letter = LETRAS_VALIDACION[(IntOf(numbers) % 23) + 1]

validate_dni(dni) ==
    LET d == clean_document(dni) IN
    IF ~ReMatchAnchored(RE_DNI, d) THEN FALSE
    ELSE LET numbers == SubSeq(d, 1, Len(d) - 1)
             letter == d[Len(d)]
         IN  IF IntValueError(numbers) THEN FALSE
             ELSE letter = LETRAS_VALIDACION[(IntOf(numbers) % 23) + 1]

\* the mutant of prefix: the prefix digits start at 1
prefix_from_one(c) == CASE c = "X" -> "1" [] c = "Y" -> "2" [] c = "Z" -> "3"

\* prefix = {'X': '0', 'Y': '1', 'Z': '2'}
prefix(c) == CASE c = "X" -> "0" [] c = "Y" -> "1" [] c = "Z" -> "2"

\* the mutant of validate_nie: the leading letter is dropped instead of mapped
validate_nie_noprefix(nie) ==
    LET d == clean_document(nie) IN
    IF ~ReMatchAnchored(RE_NIE, d) THEN FALSE
    ELSE IF d[1] \notin {"X", "Y", "Z"} THEN FALSE
    ELSE LET numbers == SubSeq(d, 2, Len(d) - 1)
         IN  IF IntValueError(numbers) THEN FALSE
             ELSE d[Len(d)] = LETRAS_VALIDACION[(IntOf(numbers) % 23) + 1]

validate_nie(nie) ==
    LET d == clean_document(nie) IN
    IF ~ReMatchAnchored(RE_NIE, d) THEN FALSE
    ELSE IF d[1] \notin {"X", "Y", "Z"} THEN FALSE   \* KeyError
    ELSE LET numbers == <<prefix(d[1])>> \o SubSeq(d, 2, Len(d) - 1)
         IN  IF IntValueError(numbers) THEN FALSE
             ELSE d[Len(d)] = LETRAS_VALIDACION[(IntOf(numbers) % 23) + 1]

\* the mutant of validate_nif: a body of 8 digits is accepted as well
validate_nif_body8(nif) ==
    \/ ReMatchAnchored(RE_NIF, clean_document(nif))
    \/ ReMatchAnchored(RE_NIF_BODY8, clean_document(nif))

validate_nif(nif) == ReMatchAnchored(RE_NIF, clean_document(nif))

(***************************************************************************)
(* process_pdf                                                             *)
(***************************************************************************)
\* __init__: self.stats
NewStats ==
    [archivos_procesados |-> 0, dni_validos |-> 0, nie_validos |-> 0,
     nif_validos |-> 0, docs_invalidos |-> 0]

\* the validator the loop body picks for the type
Validar(tipo, doc_limpio) ==
    CASE tipo = "DNI" -> validate_dni(doc_limpio)
      [] tipo = "NIE" -> validate_nie(doc_limpio)
      [] tipo = "NIF" -> validate_nif(doc_limpio)
      [] OTHER -> FALSE

\* the mutant of ContarResultado: an invalid document is also counted under its type
ContarResultadoAmbos(st, tipo, es_valido) ==
    LET a == IF tipo = "DNI" THEN [st EXCEPT !.dni_validos = @ + 1]
             ELSE IF tipo = "NIE" THEN [st EXCEPT !.nie_validos = @ + 1]
             ELSE IF tipo = "NIF" THEN [st EXCEPT !.nif_validos = @ + 1]
             ELSE st
    IN  IF ~es_valido THEN [a EXCEPT !.docs_invalidos = @ + 1] ELSE a

\* the counters the loop body updates for one match
ContarResultado(st, tipo, es_valido) ==
    LET a == IF tipo = "DNI" /\ es_valido THEN [st EXCEPT !.dni_validos = @ + 1]
             ELSE IF tipo = "NIE" /\ es_valido THEN [st EXCEPT !.nie_validos = @ + 1]
             ELSE IF tipo = "NIF" /\ es_valido THEN [st EXCEPT !.nif_validos = @ + 1]
             ELSE st
    IN  IF ~es_valido THEN [a EXCEPT !.docs_invalidos = @ + 1] ELSE a

\* for match in coincidencias: acc is (self.stats, resultados).  The field
\* inicio of a result is match.start(): the program does not keep it, the
\* model does, to state where in the text a result was found.
\* one turn of the loop body, given doc_limpio and es_valido
Anotar(acc, tipo, match, doc_limpio, es_valido) ==
    [stats |-> ContarResultado(acc.stats, tipo, es_valido),
     resultados |-> Append(acc.resultados,
                           [tipo |-> tipo, documento |-> match.group,
                            documento_limpio |-> doc_limpio,
                            valido |-> es_valido, inicio |-> match.start])]

RECURSIVE ProcesarCoincidencias(_, _, _)
ProcesarCoincidencias(acc, coincidencias, tipo) ==
    IF coincidencias = <<>> THEN acc
    ELSE LET match == Head(coincidencias)
             doc_limpio == clean_document(match.group)
         IN  ProcesarCoincidencias(
                 Anotar(acc, tipo, match, doc_limpio, Validar(tipo, doc_limpio)),
                 Tail(coincidencias), tipo)

\* the mutant of PATRONES: the passes run in another order
PATRONES_NIF_FIRST ==
    <<[patron |-> PATRON_NIF, tipo |-> "NIF"],
      [patron |-> PATRON_DNI, tipo |-> "DNI"],
      [patron |-> PATRON_NIE, tipo |-> "NIE"]>>

\* the list the outer loop runs over
PATRONES ==
    <<[patron |-> PATRON_DNI, tipo |-> "DNI"],
      [patron |-> PATRON_NIE, tipo |-> "NIE"],
      [patron |-> PATRON_NIF, tipo |-> "NIF"]>>

\* for patron, tipo in [...]
RECURSIVE BuscarDocumentos(_, _, _)
BuscarDocumentos(acc, t, k) ==
    IF k > Len(PATRONES) THEN acc
    ELSE BuscarDocumentos(
             ProcesarCoincidencias(acc, finditer(PATRONES[k].patron, t), PATRONES[k].tipo),
             t, k + 1)

\* the mutant of ContarArchivo: a file with no document is not counted
ContarArchivoSiHay(acc) ==
    IF acc.resultados = <<>> THEN acc
    ELSE [acc EXCEPT !.stats.archivos_procesados = @ + 1]

\* self.stats['archivos_procesados'] += 1
ContarArchivo(acc) == [acc EXCEPT !.stats.archivos_procesados = @ + 1]

\* What the two PDF libraries give: the text of the document, or an exception.
Fallo == [ok |-> FALSE, texto |-> <<>>]

Extraido(t) == [ok |-> TRUE, texto |-> t]

\* the early return after a failed download and the handler of the outer try:
\* both return resultados, which is still empty
process_pdf_falla(st, causa) ==
    [stats |-> st, resultados |-> <<>>, extraccion |-> causa, texto |-> <<>>,
     lanzado |-> FALSE]

\* process_pdf(source, is_url).  descarga_ok is what download_pdf returns,
\* primario what pdfplumber gives and alterno what PyPDF2 gives for the file.
process_pdf(st, is_url, descarga_ok, primario, alterno) ==
    IF is_url /\ ~descarga_ok THEN process_pdf_falla(st, "descarga")
    ELSE IF ~primario.ok /\ ~alterno.ok THEN process_pdf_falla(st, "extraccion")
    ELSE LET t == IF primario.ok THEN primario.texto ELSE alterno.texto
             acc == ContarArchivo(
                        BuscarDocumentos([stats |-> st, resultados |-> <<>>], t, 1))
         IN  [stats |-> acc.stats, resultados |-> acc.resultados,
              extraccion |-> "ok", texto |-> t, lanzado |-> FALSE]

(***************************************************************************)
(* save_results                                                            *)
(***************************************************************************)
\* one row of the CSV file (the Valido column without its symbol)
Fila(resultado) ==
    [Tipo |-> resultado.tipo, Documento |-> resultado.documento,
     DocumentoLimpio |-> resultado.documento_limpio,
     Valido |-> IF resultado.valido THEN "Si" ELSE "No"]

SinCsv == [escrito |-> FALSE, filas |-> <<>>, resumen |-> <<>>]

\* save_results(resultados, archivo) when open() succeeds: the rows, then the
\* summary rows Total DNI, Total NIE, Total NIF, Total Documentos
save_results(st, lista) ==
    [escrito |-> TRUE,
     filas |-> [i \in 1..Len(lista) |-> Fila(lista[i])],
     resumen |-> <<st.dni_validos, st.nie_validos, st.nif_validos, Len(lista)>>]

(***************************************************************************)
(* Inputs                                                                  *)
(***************************************************************************)
MaxCalls == 3

NumBodies == 22

MaxWords == 3

\* n written with w digits, zero-padded
Fmt(n, w) ==
    LET p[k \in 0..w] == IF k = 0 THEN 1 ELSE 10 * p[k - 1]
    IN  [i \in 1..w |-> DigitSeq[((n \div p[w - i]) % 10) + 1]]

Upper == {UpperSeq[i] : i \in 1..Len(UpperSeq)}

lower(s) ==
    [i \in 1..Len(s) |->
        IF \E k \in 1..26 : UpperSeq[k] = s[i]
        THEN LowerSeq[CHOOSE k \in 1..26 : UpperSeq[k] = s[i]]
        ELSE s[i]]

\* 12.345.678-Z
Dotted(s) ==
    IF Len(s) # 9 THEN s
    ELSE SubSeq(s, 1, 2) \o <<".">> \o SubSeq(s, 3, 5) \o <<".">> \o SubSeq(s, 6, 8)
         \o <<"-">> \o SubSeq(s, 9, 9)

\* numeric bodies: the stride is prime to 23, so 23 consecutive samples give
\* every remainder
Bodies8 == {(k * 12345679) % 100000000 : k \in 0..NumBodies} \cup {0, 12345678, 99999999}

Bodies7 == {(k * 1234577) % 10000000 : k \in 0..NumBodies} \cup {0, 1234567, 9999999}

DniTokens == {Fmt(n, 8) \o <<l>> : n \in Bodies8, l \in Upper}

NieTokens ==
    {<<x>> \o Fmt(m, 7) \o <<l>> : x \in {"X", "Y", "Z"}, m \in Bodies7, l \in Upper}

NifTokens ==
    {<<c>> \o Fmt(m, 7) \o <<e>> :
        c \in Upper, m \in {0, 1234567}, e \in {"0", "9", "A", "L", "Z"}}

W_DNI_OK == Fmt(12345678, 8) \o <<"Z">>

W_DNI_BAD == Fmt(12345678, 8) \o <<"A">>

W_NIE_OK == <<"X">> \o Fmt(1234567, 7) \o <<"L">>

W_NIE_BAD == <<"Y">> \o Fmt(1234567, 7) \o <<"L">>

W_NIF == <<"A">> \o Fmt(1234567, 7) \o <<"B">>

W_NO == <<"n", "o">>

W_COINCIDE == <<"c", "o", "i", "n", "c", "i", "d", "e">>

Cores ==
    {W_DNI_OK, W_DNI_BAD, W_NIE_OK, W_NIE_BAD, W_NIF,
     <<"Z">> \o Fmt(7654321, 7) \o <<"K">>,
     <<"K">> \o Fmt(1234567, 7) \o <<"B">>,
     <<"W">> \o Fmt(7654321, 7) \o <<"5">>}

\* a token and the ways it is written, cut or padded
Variants(c) ==
    {c, lower(c), Dotted(c), c \o <<"\n">>, <<" ">> \o c \o <<"\t">>,
     c \o <<"_">>, c \o <<"7">>, <<"7">> \o c, Tail(c), SubSeq(c, 1, Len(c) - 1),
     SubSeq(c, 1, Len(c) - 2) \o <<c[Len(c)]>>,
     SubSeq(c, 1, Len(c) - 1) \o <<"7", c[Len(c)]>>,
     SubSeq(c, 1, 4) \o <<"O">> \o SubSeq(c, 6, Len(c)),
     SubSeq(c, 1, Len(c) - 1) \o <<",">>,
     lower(Dotted(c)), <<KRA>> \o c, SubSeq(c, 1, Len(c) - 1) \o <<KRA>>}

Malformed ==
    UNION {Variants(c) : c \in Cores}
        \cup {<<>>, <<"Z">>, <<"1">>, <<"1", "R">>, <<KRA>>, <<"1", " ", KRA, ".", "a">>}

Tokens == DniTokens \cup NieTokens \cup NifTokens \cup Malformed

\* texts of up to MaxWords words joined by one separator
Words ==
    {W_DNI_OK, W_DNI_BAD, W_NIE_OK, W_NIE_BAD, W_NIF, W_NO, W_DNI_OK \o <<"_">>,
     <<"W">> \o Fmt(7654321, 7) \o <<"5">>}

RECURSIVE Joined(_, _)
Joined(n, sep) ==
    IF n = 0 THEN {<<>>}
    ELSE LET shorter == Joined(n - 1, sep)
         IN  shorter \cup Words
             \cup {t \o <<sep>> \o w : t \in shorter \ {<<>>}, w \in Words}

Texts == Joined(MaxWords, " ") \cup Joined(MaxWords, "-")

Inputs == Tokens \cup Texts

\* the documents of the sessions: the text each PDF holds
T_NIE == W_NIE_OK \o <<" ">> \o W_NO \o <<" ">> \o W_COINCIDE

T_MIXED == W_NIF \o <<" ">> \o W_NIE_BAD \o <<" ">> \o W_DNI_OK

T_TWO_DNI == W_DNI_BAD \o <<"\n">> \o W_NIE_OK \o <<",">> \o W_DNI_OK

Documents == {<<>>, W_NO \o <<" ">> \o W_COINCIDE, T_NIE, T_MIXED, T_TWO_DNI}

Extracciones == {Fallo} \cup {Extraido(t) : t \in Documents}

CallTokens == {W_DNI_OK, lower(W_DNI_BAD), W_NIE_OK, W_NIF, <<>>}

(***************************************************************************)
(* The state machine                                                       *)
(***************************************************************************)
SinDevueltos == [total |-> 0, dni |-> 0, nie |-> 0, nif |-> 0, invalidos |-> 0]

\* how many results of a returned list are of a type and valid, or invalid
Cuenta(lista, tipo) ==
    Cardinality({i \in 1..Len(lista) : lista[i].tipo = tipo /\ lista[i].valido})

Invalidos(lista) == Cardinality({i \in 1..Len(lista) : ~lista[i].valido})

Init ==
    /\ stats = NewStats
    /\ op = "init"
    /\ doc = <<>>
    /\ valido = FALSE
    /\ texto = <<>>
    /\ extraccion = "ninguna"
    /\ resultados = <<>>
    /\ lanzado = FALSE
    /\ llamadas = 0
    /\ devueltos = SinDevueltos
    /\ csv = SinCsv

DoProcessPdf(is_url, descarga_ok, primario, alterno) ==
    \E r \in {process_pdf(stats, is_url, descarga_ok, primario, alterno)} :
    /\ op' = "process_pdf"
    /\ stats' = r.stats
    /\ resultados' = r.resultados
    /\ extraccion' = r.extraccion
    /\ texto' = r.texto
    /\ lanzado' = r.lanzado
    /\ llamadas' = llamadas + 1
    /\ devueltos' = [total |-> devueltos.total + Len(r.resultados),
                     dni |-> devueltos.dni + Cuenta(r.resultados, "DNI"),
                     nie |-> devueltos.nie + Cuenta(r.resultados, "NIE"),
                     nif |-> devueltos.nif + Cuenta(r.resultados, "NIF"),
                     invalidos |-> devueltos.invalidos + Invalidos(r.resultados)]
    /\ UNCHANGED <<doc, valido, csv>>

DoValidate(nombre, d, r) ==
    /\ op' = nombre
    /\ doc' = d
    /\ valido' = r
    /\ lanzado' = FALSE
    /\ UNCHANGED <<stats, texto, extraccion, resultados, llamadas, devueltos, csv>>

ProcessPdf ==
    /\ llamadas < MaxCalls
    /\ \E is_url \in BOOLEAN, primario \in Extracciones :
         \* download_pdf runs only for a URL, PyPDF2 only after pdfplumber failed
         \E descarga_ok \in (IF is_url THEN BOOLEAN ELSE {TRUE}),
            alterno \in (IF primario.ok THEN {Fallo} ELSE Extracciones) :
              DoProcessPdf(is_url, descarga_ok, primario, alterno)

ValidateDni == \E d \in CallTokens : DoValidate("validate_dni", d, validate_dni(d))

ValidateNie == \E d \in CallTokens : DoValidate("validate_nie", d, validate_nie(d))

ValidateNif == \E d \in CallTokens : DoValidate("validate_nif", d, validate_nif(d))

\* the mutant of SaveResults: the counters are cleared once exported
SaveResultsReset ==
    /\ llamadas < MaxCalls
    /\ \E lista \in {resultados} \cup {<<resultados[i]>> : i \in 1..Len(resultados)},
          abre \in BOOLEAN :
            /\ op' = "save_results"
            /\ csv' = IF abre THEN save_results(stats, lista) ELSE csv
            /\ lanzado' = ~abre
            /\ llamadas' = llamadas + 1
            /\ stats' = IF abre THEN NewStats ELSE stats
            /\ UNCHANGED <<doc, valido, texto, extraccion, resultados, devueltos>>

\* main exports the list it holds, whole or one result at a time; open() may fail,
\* and save_results raises again what it caught
SaveResults ==
    /\ llamadas < MaxCalls
    /\ \E lista \in {resultados} \cup {<<resultados[i]>> : i \in 1..Len(resultados)},
          abre \in BOOLEAN :
            /\ op' = "save_results"
            /\ csv' = IF abre THEN save_results(stats, lista) ELSE csv
            /\ lanzado' = ~abre
            /\ llamadas' = llamadas + 1
            /\ UNCHANGED <<stats, doc, valido, texto, extraccion, resultados, devueltos>>

Next == ProcessPdf \/ ValidateDni \/ ValidateNie \/ ValidateNif \/ SaveResults

Spec == Init /\ [][Next]_vars

\* The functions on their own: one input, drawn at the start, to which the
\* three validators and one scan of a document holding it are applied.
InitInput ==
    /\ \E s \in Inputs : doc = s /\ texto = s
    /\ stats = NewStats
    /\ op = "init"
    /\ valido = FALSE
    /\ extraccion = "ninguna"
    /\ resultados = <<>>
    /\ lanzado = FALSE
    /\ llamadas = 0
    /\ devueltos = SinDevueltos
    /\ csv = SinCsv

ApplyValidateDni == DoValidate("validate_dni", doc, validate_dni(doc))

ApplyValidateNie == DoValidate("validate_nie", doc, validate_nie(doc))

ApplyValidateNif == DoValidate("validate_nif", doc, validate_nif(doc))

ApplyScan == llamadas = 0 /\ DoProcessPdf(FALSE, TRUE, Extraido(texto), Fallo)

NextInput == ApplyValidateDni \/ ApplyValidateNie \/ ApplyValidateNif \/ ApplyScan

SpecInput == InitInput /\ [][NextInput]_vars

(***************************************************************************)
(* The properties                                                          *)
(***************************************************************************)
Digits == {"0", "1", "2", "3", "4", "5", "6", "7", "8", "9"}

\* the number a string of decimal digits writes: the sum of digit * 10^place
Valor(s) ==
    LET d(c) == CHOOSE k \in 0..9 : DigitSeq[k + 1] = c
        pow[k \in 0..Len(s)] == IF k = 0 THEN 1 ELSE 10 * pow[k - 1]
        sum[i \in 0..Len(s)] ==
            IF i = 0 THEN 0 ELSE sum[i - 1] + d(s[i]) * pow[Len(s) - i]
    IN  sum[Len(s)]

AllDigits(s, a, b) == \A i \in a..b : s[i] \in Digits

\* the check letter of n
Letra(n) == LETRAS_VALIDACION[(n % 23) + 1]

\* every sampled body with its computed letter
DniComputed == {Fmt(n, 8) \o <<Letra(n)>> : n \in Bodies8}

\* C1: validate_dni(token) is true exactly when the cleaned token is 8 decimal
\* digits and one uppercase letter and the letter is LETRAS_VALIDACION[n mod 23],
\* n being the 8 digits read as a number; so the body n written with 8 digits
\* and followed by a letter is valid for the computed letter and for no other.
C1_ValidateDni ==
    op = "validate_dni" =>
        LET c == clean_document(doc) IN
        /\ valido <=> /\ Len(c) = 9
                      /\ AllDigits(c, 1, 8)
                      /\ c[9] \in Upper
                      /\ c[9] = Letra(Valor(SubSeq(c, 1, 8)))
        /\ doc \in DniTokens => (valido <=> doc \in DniComputed)

\* validate_dni has accepted 99999999R (99999999 mod 23 = 1)
C1_Witness ==
    op = "validate_dni" /\ valido /\ doc = Fmt(99999999, 8) \o <<"R">>

PrefixDigit(x) == IF x = "X" THEN 0 ELSE IF x = "Y" THEN 1 ELSE 2

NieComputed ==
    {<<x>> \o Fmt(m, 7) \o <<Letra(PrefixDigit(x) * 10000000 + m)>> :
        x \in {"X", "Y", "Z"}, m \in Bodies7}

\* C2: validate_nie(token) is true exactly when the cleaned token is X, Y or Z,
\* 7 decimal digits and one uppercase letter, and the letter is
\* LETRAS_VALIDACION[n mod 23] for n = prefix digit (X 0, Y 1, Z 2) followed by
\* the 7 digits; a valid NIE with another trailing letter is invalid.
C2_ValidateNie ==
    op = "validate_nie" =>
        LET c == clean_document(doc) IN
        /\ valido <=> /\ Len(c) = 9
                      /\ c[1] \in {"X", "Y", "Z"}
                      /\ AllDigits(c, 2, 8)
                      /\ c[9] \in Upper
                      /\ c[9] = Letra(PrefixDigit(c[1]) * 10000000 + Valor(SubSeq(c, 2, 8)))
        /\ doc \in NieTokens => (valido <=> doc \in NieComputed)

\* validate_nie has accepted Y1234567X (11234567 mod 23 = 10)
C2_Witness ==
    op = "validate_nie" /\ valido /\ doc = <<"Y">> \o Fmt(1234567, 7) \o <<"X">>

\* a step that is one process_pdf call whose text was obtained
Scanned == op' = "process_pdf" /\ llamadas' = llamadas + 1 /\ extraccion' = "ok"

\* C3 as the specification states it: scanning "X1234567L no coincide" gives
\* one result, the NIE X1234567L, not valid; docs_invalidos is incremented and
\* nie_validos is not.
C3_Original ==
    [][(Scanned /\ texto' = T_NIE) =>
          /\ Len(resultados') = 1
          /\ resultados'[1].tipo = "NIE"
          /\ resultados'[1].documento = W_NIE_OK
          /\ resultados'[1].valido = FALSE
          /\ stats'.docs_invalidos = stats.docs_invalidos + 1
          /\ stats'.nie_validos = stats.nie_validos]_vars

\* C3: scanning "X1234567L no coincide" gives exactly one result, of type NIE
\* with raw X1234567L, and it is valid, for 01234567 mod 23 = 19 selects the
\* letter L; nie_validos is incremented and docs_invalidos is not.
C3_ScanNie ==
    [][(Scanned /\ texto' = T_NIE) =>
          /\ Len(resultados') = 1
          /\ resultados'[1].tipo = "NIE"
          /\ resultados'[1].documento = W_NIE_OK
          /\ resultados'[1].valido = TRUE
          /\ 1234567 % 23 = 19 /\ LETRAS_VALIDACION[19 + 1] = "L"
          /\ stats'.nie_validos = stats.nie_validos + 1
          /\ stats'.docs_invalidos = stats.docs_invalidos]_vars

\* "X1234567L no coincide" has been scanned
C3_Witness ==
    /\ op = "process_pdf" /\ extraccion = "ok" /\ texto = T_NIE
    /\ Len(resultados) = 1 /\ stats.nie_validos >= 1

NifLetters ==
    {"A", "B", "C", "D", "E", "F", "G", "H", "J", "N", "P", "Q", "R", "S", "U", "V", "W"}

\* the digits between the first and the last character of c, when c has such
BodyLen(c) == Len(c) - 2

NifOuterShape(s) ==
    /\ Len(s) = 9
    /\ s[1] \in Upper
    /\ AllDigits(s, 2, 8)
    /\ s[9] \in Digits \cup Upper

HasNif(lista) == \E i \in 1..Len(lista) : lista[i].tipo = "NIF"

\* C5 as the specification states it: the leading letters the NIF pattern
\* accepts are all of A-Z but I, K, L, M, O and T.
C5_Original ==
    /\ (op = "validate_nif" /\ NifOuterShape(doc))
           => (valido <=> doc[1] \notin {"I", "K", "L", "M", "O", "T"})
    /\ (op = "process_pdf" /\ NifOuterShape(texto))
           => (HasNif(resultados) <=> texto[1] \notin {"I", "K", "L", "M", "O", "T"})

\* C5: the leading letters accepted by the NIF pattern (PATRON_NIF and
\* validate_nif) are all of A-Z but I, K, L, M, O, T, X, Y and Z: the 17 letters
\* A-H, J, N, P-S, U, V, W.
C5_NifLeadingLetters ==
    /\ (op = "validate_nif" /\ NifOuterShape(doc))
           => (valido <=> doc[1] \notin {"I", "K", "L", "M", "O", "T", "X", "Y", "Z"})
    /\ (op = "process_pdf" /\ NifOuterShape(texto))
           => (HasNif(resultados)
                   <=> texto[1] \notin {"I", "K", "L", "M", "O", "T", "X", "Y", "Z"})

\* a document that is X0000000Z alone has been scanned and gave no NIF
C5_Witness ==
    /\ op = "process_pdf" /\ texto = <<"X">> \o Fmt(0, 7) \o <<"Z">>
    /\ ~HasNif(resultados)

Rank(tipo) == CASE tipo = "DNI" -> 1 [] tipo = "NIE" -> 2 [] tipo = "NIF" -> 3

\* C6: the results of one scan list the DNI results, then the NIE results, then
\* the NIF results, each type in ascending start offset of its match; no NIE
\* precedes a DNI and no NIF precedes a DNI or a NIE.
C6_ResultOrder ==
    \A i, j \in 1..Len(resultados) :
        i < j => /\ Rank(resultados[i].tipo) <= Rank(resultados[j].tipo)
                 /\ resultados[i].tipo = resultados[j].tipo
                        => resultados[i].inicio < resultados[j].inicio

\* a scan has returned two DNI in their order in the text, then a NIE that
\* stands before both in the text
C6_Witness ==
    /\ op = "process_pdf" /\ Len(resultados) = 3
    /\ resultados[1].tipo = "DNI" /\ resultados[2].tipo = "DNI"
    /\ resultados[3].tipo = "NIE"
    /\ resultados[3].inicio < resultados[1].inicio
    /\ resultados[1].inicio < resultados[2].inicio

\* C7: each result of a scan increments exactly one counter by 1, the valid
\* counter of its type or docs_invalidos; so after any sequence of scans the
\* four counters add up to the number of results returned, and each valid
\* counter is the number of valid results of its type.
C7_CountersMatchResults ==
    /\ stats.dni_validos = devueltos.dni
    /\ stats.nie_validos = devueltos.nie
    /\ stats.nif_validos = devueltos.nif
    /\ stats.docs_invalidos = devueltos.invalidos
    /\ stats.dni_validos + stats.nie_validos + stats.nif_validos + stats.docs_invalidos
           = devueltos.total

\* several scans have been made and every one of the four counters has counted
C7_Witness ==
    /\ stats.archivos_procesados >= 2
    /\ stats.dni_validos >= 1 /\ stats.nie_validos >= 1
    /\ stats.nif_validos >= 1 /\ stats.docs_invalidos >= 1
    /\ devueltos.total >= 4

\* a DNI, NIE or NIF stands in t as a word of its own
Candidate(t, p) ==
    /\ p + 8 <= Len(t)
    /\ \A i \in p..(p + 8) : t[i] \in Digits \cup Upper
    /\ p = 1 \/ t[p - 1] \notin ClassWord
    /\ p + 8 = Len(t) \/ t[p + 9] \notin ClassWord
    /\ AllDigits(t, p + 1, p + 7)
    /\ \/ t[p] \in Digits /\ t[p + 8] \in Upper
       \/ t[p] \in {"X", "Y", "Z"} /\ t[p + 8] \in Upper
       \/ t[p] \in NifLetters

NoCandidate(t) == \A p \in 1..Len(t) : ~Candidate(t, p)

\* C8: a scan whose text was obtained increments archivos_procesados by exactly
\* 1, whatever it found; when the text has no match of any pattern (the empty
\* text too) it returns the empty list and leaves the four other counters as
\* they were.
C8_FilesProcessed ==
    [][Scanned =>
          /\ stats'.archivos_procesados = stats.archivos_procesados + 1
          /\ NoCandidate(texto') =>
                 /\ resultados' = <<>>
                 /\ stats'.dni_validos = stats.dni_validos
                 /\ stats'.nie_validos = stats.nie_validos
                 /\ stats'.nif_validos = stats.nif_validos
                 /\ stats'.docs_invalidos = stats.docs_invalidos]_vars

\* a text without documents has been scanned after scans that found some
C8_Witness ==
    /\ op = "process_pdf" /\ extraccion = "ok"
    /\ texto # <<>> /\ NoCandidate(texto) /\ resultados = <<>>
    /\ stats.archivos_procesados >= 2 /\ devueltos.total >= 1

\* what the caller of process_pdf gets when a document with no text in it was
\* scanned
EmptyScan == process_pdf(NewStats, FALSE, TRUE, Extraido(<<>>), Fallo)

\* C9: when the download fails, or both extractions fail, what the caller of
\* process_pdf receives differs from what it receives after the scan of a
\* document whose text is empty.
C9_FailureIsDistinct ==
    (op = "process_pdf" /\ extraccion # "ok")
        => <<resultados, lanzado>> # <<EmptyScan.resultados, EmptyScan.lanzado>>

Counters ==
    {"archivos_procesados", "dni_validos", "nie_validos", "nif_validos", "docs_invalidos"}

\* C10: the five counters are 0 in a new instance; no operation decreases or
\* resets one, and only process_pdf changes them.
C10_CountersMonotonic ==
    /\ \A k \in Counters : stats[k] = 0
    /\ [][/\ \A k \in Counters : stats'[k] >= stats[k]
          /\ op' # "process_pdf" => stats' = stats]_vars

\* results were exported, and then a document validated, with the counters
\* standing at what the scans had counted
C10_Witness ==
    /\ op \in {"validate_dni", "validate_nie", "validate_nif"}
    /\ csv.escrito
    /\ stats.archivos_procesados >= 1 /\ stats.dni_validos >= 1

AsciiLower == {LowerSeq[i] : i \in 1..Len(LowerSeq)}

\* the operations that clean their argument doc
ValidatorOps == {"validate_dni", "validate_nie", "validate_nif"}

IsString(s) == \A i \in 1..Len(s) : s[i] \in Chars

\* C11 as the specification states it: clean_document is total and idempotent,
\* and its output holds no space, period, hyphen or lowercase letter.
C11_Original ==
    op \in ValidatorOps =>
    LET c == clean_document(doc) IN
    /\ IsString(c)
    /\ clean_document(c) = c
    /\ \A i \in 1..Len(c) : c[i] \notin {" ", ".", "-"} \cup AsciiLower \cup {KRA}

\* C11: clean_document is total and idempotent, and its output holds no space,
\* period or hyphen and no lowercase letter that has an uppercase form (none of
\* a-z); a lowercase letter without an uppercase form is kept as it is.
C11_CleanIdempotent ==
    op \in ValidatorOps =>
    LET c == clean_document(doc) IN
    /\ IsString(c)
    /\ clean_document(c) = c
    /\ \A i \in 1..Len(c) : c[i] \notin {" ", ".", "-"} \cup AsciiLower
    /\ Cardinality({i \in 1..Len(c) : c[i] = KRA})
           = Cardinality({i \in 1..Len(doc) : doc[i] = KRA})

\* a validator has cleaned "12.345.678-z", with separators and a lowercase
\* letter, and found the DNI in it
C11_Witness ==
    /\ op = "validate_dni" /\ valido
    /\ doc = lower(Dotted(W_DNI_OK))
    /\ clean_document(doc) = W_DNI_OK

\* the cleaned token has the shape the validator named by the operation tests
ShapeOf(nombre, c) ==
    /\ Len(c) = 9
    /\ AllDigits(c, 2, 8)
    /\ CASE nombre = "validate_dni" -> c[1] \in Digits /\ c[9] \in Upper
         [] nombre = "validate_nie" -> c[1] \in {"X", "Y", "Z"} /\ c[9] \in Upper
         [] nombre = "validate_nif" -> c[1] \in NifLetters /\ c[9] \in Digits \cup Upper

\* C12: validate_dni, validate_nie and validate_nif return a boolean for every
\* string, the empty one, wrong lengths and non-numeric bodies too, and raise
\* nothing; an input that has not the shape of the type once cleaned gives false.
C12_ValidatorsTotal ==
    op \in ValidatorOps =>
        /\ valido \in BOOLEAN
        /\ ~lanzado
        /\ ~ShapeOf(op, clean_document(doc)) => ~valido

\* validate_dni has been given "1R", too short, whose letter is the check
\* letter of 1, and has answered false
C12_Witness ==
    op = "validate_dni" /\ doc = <<"1", "R">> /\ valido = FALSE /\ ~lanzado

\* how many results of a list are of a type
DeTipo(lista, tipo) == Cardinality({i \in 1..Len(lista) : lista[i].tipo = tipo})

\* C13: every NIF result of a scan is valid, what PATRON_NIF matches passing
\* validate_nif; so, after the scan a new instance makes of a text, nif_validos
\* is the number of NIF matches and docs_invalidos the number of DNI and NIE
\* results whose check letter does not match.
C13_NifAlwaysValid ==
    (llamadas = 1 /\ extraccion = "ok") =>
        /\ \A i \in 1..Len(resultados) :
               resultados[i].tipo = "NIF" => resultados[i].valido
        /\ stats.nif_validos = DeTipo(resultados, "NIF")
        /\ stats.docs_invalidos =
               Cardinality({i \in 1..Len(resultados) :
                               /\ resultados[i].tipo \in {"DNI", "NIE"}
                               /\ ~resultados[i].valido})

\* a text with a NIF that ends in a digit and a DNI with a wrong letter has been
\* scanned: the NIF is valid, the DNI is the one invalid document
C13_Witness ==
    /\ op = "process_pdf" /\ llamadas = 1 /\ extraccion = "ok"
    /\ DeTipo(resultados, "NIF") = 1 /\ DeTipo(resultados, "DNI") = 1
    /\ \E i \in 1..Len(resultados) :
           resultados[i].tipo = "NIF" /\ resultados[i].documento[9] \in Digits
    /\ stats.nif_validos = 1 /\ stats.docs_invalidos = 1

\* the rows of the written file that are of a type and valid
FilasValidas(tipo) ==
    Cardinality({i \in 1..Len(csv.filas) :
                    csv.filas[i].Tipo = tipo /\ csv.filas[i].Valido = "Si"})

\* C14: in the file save_results writes after any sequence of process_pdf calls,
\* the rows Total DNI, Total NIE and Total NIF are the numbers of valid DNI, NIE
\* and NIF entries of the exported list, so that their sum is at most the row
\* Total Documentos.
C14_SummaryMatchesRows ==
    csv.escrito =>
        /\ csv.resumen[1] = FilasValidas("DNI")
        /\ csv.resumen[2] = FilasValidas("NIE")
        /\ csv.resumen[3] = FilasValidas("NIF")
        /\ csv.resumen[1] + csv.resumen[2] + csv.resumen[3] <= csv.resumen[4]
====
